---- MODULE Spec2Model ----
(***************************************************************************)
(* Schnorr-style zero-knowledge login of app/api/v1/endpoints/auth.py:     *)
(* register, get_challenge and verify_proof, run by concurrent request     *)
(* handlers against the users table and the Redis challenge store.         *)
(*                                                                         *)
(* Strings are sequences of one-character strings, so that concatenation   *)
(* and base-16 parsing are computed, not assumed.  A handler is cut at its *)
(* awaits: every action is one external call (SQL statement or Redis       *)
(* command) together with the local code that follows it up to the next    *)
(* await or the return.                                                    *)
(***************************************************************************)
EXTENDS Integers, Sequences, FiniteSets, TLC

(* ------------------------------ bounds -------------------------------- *)

\* number of challenge identifiers uuid4 hands out in one run
MaxChallenges == 2

\* hex digits of the digest (sha256 has 64)
DigestLen == 2

\* highest bit position flipped when a proof is tampered with
MaxBit == 5

\* largest challenge value a prover is handed in SpecProver
MaxChallengeValue == 24

\* latest second on the clock at which a token is created
MaxNow == 2

(* ------------------------- group parameters --------------------------- *)

P == 23

Q == 11

G == 4

(* ------------------------------ strings ------------------------------- *)

HexLower == <<"0","1","2","3","4","5","6","7","8","9","a","b","c","d","e","f">>

HexUpper == <<"0","1","2","3","4","5","6","7","8","9","A","B","C","D","E","F">>

\* value of one base-16 digit, -1 for any other character
DigitOf(ch) ==
    IF \E i \in 1..16 : HexLower[i] = ch
    THEN (CHOOSE i \in 1..16 : HexLower[i] = ch) - 1
    ELSE IF \E i \in 1..16 : HexUpper[i] = ch
    THEN (CHOOSE i \in 1..16 : HexUpper[i] = ch) - 1
    ELSE -1

\* code point of a character, as str.encode("utf-8") yields it
Ascii(ch) ==
    IF \E i \in 1..10 : HexLower[i] = ch THEN 48 + DigitOf(ch)
    ELSE IF \E i \in 11..16 : HexLower[i] = ch THEN 87 + DigitOf(ch)
    ELSE IF \E i \in 11..16 : HexUpper[i] = ch THEN 55 + DigitOf(ch)
    ELSE CASE ch = "-" -> 45
           [] ch = "+" -> 43
           [] ch = "g" -> 103
           [] ch = "s" -> 115
           [] ch = "x" -> 120
           [] ch = "z" -> 122
           [] OTHER -> 63

RECURSIVE DigitsValue(_)
DigitsValue(ds) ==
    IF ds = <<>> THEN 0
    ELSE 16 * DigitsValue(SubSeq(ds, 1, Len(ds) - 1)) + DigitOf(ds[Len(ds)])

ValueError == [ok |-> FALSE, val |-> 0]

\* int(str, 16): optional sign, optional 0x prefix, at least one digit
\* (the whitespace and underscores int() also skips are not in the alphabet)
IntBase16(str) ==
    LET signed == Len(str) > 0 /\ str[1] \in {"-", "+"}
        body   == IF signed THEN Tail(str) ELSE str
        digits == IF Len(body) >= 2 /\ body[1] = "0" /\ body[2] \in {"x", "X"}
                  THEN SubSeq(body, 3, Len(body))
                  ELSE body
    IN  IF digits = <<>> \/ \E i \in 1..Len(digits) : DigitOf(digits[i]) < 0
        THEN ValueError
        ELSE [ok  |-> TRUE,
              val |-> IF signed /\ str[1] = "-"
                      THEN 0 - DigitsValue(digits)
                      ELSE DigitsValue(digits)]

RECURSIVE HexDigits(_, _)
\* n written with exactly len lowercase hex digits
HexDigits(n, len) ==
    IF len = 0 THEN <<>>
    ELSE Append(HexDigits(n \div 16, len - 1), HexLower[(n % 16) + 1])

RECURSIVE ToHex(_)
\* format(n, "x") for n >= 0
ToHex(n) ==
    IF n < 16 THEN <<HexLower[n + 1]>>
    ELSE Append(ToHex(n \div 16), HexLower[(n % 16) + 1])

(* ----------------------------- arithmetic ----------------------------- *)

RECURSIVE ModExp(_, _, _)
\* b^e mod m for e >= 0, by squaring
ModExp(b, e, m) ==
    IF e = 0 THEN 1 % m
    ELSE LET h == ModExp(b, e \div 2, m)
             sq == (h * h) % m
         IN  IF e % 2 = 1 THEN (sq * (b % m)) % m ELSE sq

Invertible(b, m) == \E i \in 1..(m - 1) : (i * (b % m)) % m = 1

ModInv(b, m) == CHOOSE i \in 1..(m - 1) : (i * (b % m)) % m = 1

\* pow(b, e, m); a negative exponent uses the inverse of b and raises
\* ValueError when there is none
PyPow(b, e, m) ==
    IF e >= 0 THEN [ok |-> TRUE, val |-> ModExp(b, e, m)]
    ELSE IF Invertible(b, m)
         THEN [ok |-> TRUE, val |-> ModExp(ModInv(b, m), 0 - e, m)]
         ELSE ValueError

(* ------------------------------- hash --------------------------------- *)

DigestSpace == 16 ^ DigestLen

RECURSIVE Digest(_)
\* the digest of a byte string as a number: a fixed deterministic function
\* of the whole string, DigestLen hex digits wide
Digest(bytes) ==
    IF bytes = <<>> THEN 0
    ELSE (97 * Digest(SubSeq(bytes, 1, Len(bytes) - 1)) + Ascii(bytes[Len(bytes)]))
             % DigestSpace

\* hashlib.sha256(payload).hexdigest()
Sha256Hex(payload) == HexDigits(Digest(payload), DigestLen)

(* ------------------------- the proof verifier ------------------------- *)

OK == "ok"

InvalidProof == "Invalid proof"

InvalidHex == "Invalid hex format"

\* VerifyEquation with the right side formed without the challenge: R * Y
VerifyEquationNoChallenge(s, clientR, public_key_y, c_hex) ==
    LET s_int == IntBase16(s)
        r_int == IntBase16(clientR)
        y_int == IntBase16(public_key_y)
        c_int == IntBase16(c_hex)
    IN  IF ~(s_int.ok /\ r_int.ok /\ y_int.ok /\ c_int.ok) THEN InvalidHex
        ELSE LET lhs == PyPow(G, s_int.val, P)
             IN  IF ~lhs.ok THEN InvalidHex
                 ELSE IF lhs.val # (r_int.val * y_int.val) % P THEN InvalidProof
                 ELSE OK

\* VerifyEquation with the right side added instead of multiplied: R + Y^c
VerifyEquationSum(s, clientR, public_key_y, c_hex) ==
    LET s_int == IntBase16(s)
        r_int == IntBase16(clientR)
        y_int == IntBase16(public_key_y)
        c_int == IntBase16(c_hex)
    IN  IF ~(s_int.ok /\ r_int.ok /\ y_int.ok /\ c_int.ok) THEN InvalidHex
        ELSE LET lhs == PyPow(G, s_int.val, P)
                 y_c == PyPow(y_int.val, c_int.val, P)
             IN  IF ~(lhs.ok /\ y_c.ok) THEN InvalidHex
                 ELSE IF lhs.val # (r_int.val + y_c.val) % P THEN InvalidProof
                 ELSE OK

\* VerifyEquation with a stored key that does not parse taken as zero
VerifyEquationKeyUnparsed(s, clientR, public_key_y, c_hex) ==
    LET s_int == IntBase16(s)
        r_int == IntBase16(clientR)
        y_int == IntBase16(public_key_y)
        c_int == IntBase16(c_hex)
    IN  IF ~(s_int.ok /\ r_int.ok /\ c_int.ok) THEN InvalidHex
        ELSE LET lhs == PyPow(G, s_int.val, P)
                 y_c == PyPow(y_int.val, c_int.val, P)
             IN  IF ~(lhs.ok /\ y_c.ok) THEN InvalidHex
                 ELSE IF lhs.val # (r_int.val * y_c.val) % P THEN InvalidProof
                 ELSE OK

\* VerifyEquation with the comparison made ahead of the format check
VerifyEquationProofFirst(s, clientR, public_key_y, c_hex) ==
    LET s_int == IntBase16(s)
        r_int == IntBase16(clientR)
        y_int == IntBase16(public_key_y)
        c_int == IntBase16(c_hex)
        lhs == PyPow(G, IF s_int.val < 0 THEN 0 ELSE s_int.val, P)
        y_c == PyPow(y_int.val, c_int.val, P)
    IN  IF lhs.val # (r_int.val * y_c.val) % P THEN InvalidProof
        ELSE IF ~(s_int.ok /\ r_int.ok /\ y_int.ok /\ c_int.ok) THEN InvalidHex
        ELSE OK

\* the try block of verify_proof: parse s, R, Y, c, compare g^s with R * Y^c
VerifyEquation(s, clientR, public_key_y, c_hex) ==
    LET s_int == IntBase16(s)
        r_int == IntBase16(clientR)
        y_int == IntBase16(public_key_y)
        c_int == IntBase16(c_hex)
    IN  IF ~(s_int.ok /\ r_int.ok /\ y_int.ok /\ c_int.ok) THEN InvalidHex
        ELSE LET lhs == PyPow(G, s_int.val, P)
                 y_c == PyPow(y_int.val, c_int.val, P)
             IN  IF ~(lhs.ok /\ y_c.ok) THEN InvalidHex
                 ELSE IF lhs.val # (r_int.val * y_c.val) % P THEN InvalidProof
                 ELSE OK

(* ------------------------------- inputs ------------------------------- *)

Workers == {1, 2}

Usernames == {<<"a">>, <<"b">>}

\* publicKeyY as registered: 0x12 = 18 = g^3, and a string that is not hex
KeyInputs == {<<"1", "2">>, <<"z", "z">>}

SaltInputs == {<<"s">>}

\* clientR: 0xc = 12 = g^5, 2 = g^6, and a string that is not hex
CommitInputs == {<<"c">>, <<"2">>, <<"g">>}

ResponseInputs == {<<"4">>, <<"5">>, <<"g">>}

\* (s, clientR) as sent to Verify
ProofInputs == ResponseInputs \X CommitInputs

\* the response to c = 7 with x = 3, r = 5; a pair fitted to c = 7 and Y = 18
\* without x; a wrong response
WellFormedProofs == {<<<<"4">>, <<"c">>>>, <<<<"5">>, <<"2">>>>, <<<<"5">>, <<"c">>>>}

ChallengeIds == 1..MaxChallenges

(* ------------------------------- state -------------------------------- *)

VARIABLES
    users,      \* rows of the users table
    redis,      \* challenge:<id> -> the stored JSON object
    nextId,     \* the next identifier uuid4 returns
    pc,         \* where each request handler stands
    req,        \* the request a handler is serving
    local,      \* what a handler has read so far
    last,       \* the request answered last, with its response
    issued,     \* id -> tokens returned by verifications of that id
    proof,      \* a prover's run against the verifier: secret, nonce, proof, verdict
    trial       \* one call of a function of the module: its arguments and its result

service == <<users, redis, nextId, pc, req, local, last, issued>>

vars == <<service, proof, trial>>

NoString == <<>>

NoRequest ==
    [op |-> "none", username |-> NoString, publicKeyY |-> NoString, salt |-> NoString,
     clientR |-> NoString, s |-> NoString, challengeId |-> 0]

NoEntry == [c |-> NoString, username |-> NoString, clientR |-> NoString]

\* stored_data and public_key_y as read; existing_user as register's select
\* returned it; whether the challenge had been consumed, or rejected before,
\* when redis.get ran
NoLocal ==
    [stored_data |-> NoEntry, public_key_y |-> NoString, found |-> FALSE,
     consumed |-> FALSE, failed |-> FALSE, existing_user |-> FALSE, now |-> 0]

\* the claims of a token: subject and expiry, in seconds on the clock
NoToken == [sub |-> NoString, exp |-> 0]

NoResponse ==
    [status |-> 0, detail |-> "", challengeId |-> 0, c |-> NoString,
     sub |-> NoString, expiresIn |-> 0, token |-> NoToken]

NoProof ==
    [stage |-> "none", x |-> 0, r |-> 0, c |-> 0, publicKeyY |-> NoString,
     clientR |-> NoString, s |-> NoString, verdict |-> ""]

NoTrial ==
    [stage |-> "none", data |-> NoString, expires_delta |-> [given |-> FALSE, seconds |-> 0],
     now |-> 0, minutes |-> 0, token |-> NoToken]

NoLast == [req |-> NoRequest, local |-> NoLocal, resp |-> NoResponse]

\* raise HTTPException(status_code, detail)
HTTPException(status_code, detail) ==
    [NoResponse EXCEPT !.status = status_code, !.detail = detail]

\* the row select(User).where(User.username == username) returns first
HasUser(username) == \E row \in users : row.username = username

UserRow(username) == CHOOSE row \in users : row.username = username

InitService ==
    /\ users = {}
    /\ redis = <<>>
    /\ nextId = 1
    /\ pc = [w \in Workers |-> "idle"]
    /\ req = [w \in Workers |-> NoRequest]
    /\ local = [w \in Workers |-> NoLocal]
    /\ last = NoLast
    /\ issued = [k \in ChallengeIds |-> 0]

Init ==
    /\ InitService
    /\ proof = NoProof
    /\ trial = NoTrial

\* a handler answers request r and is free again
Reply(w, r, loc, response) ==
    /\ pc' = [pc EXCEPT ![w] = "idle"]
    /\ req' = [req EXCEPT ![w] = NoRequest]
    /\ local' = [local EXCEPT ![w] = NoLocal]
    /\ last' = [req |-> r, local |-> loc, resp |-> response]

\* a handler goes on with request r to its next await
Goto(w, r, loc, label) ==
    /\ pc' = [pc EXCEPT ![w] = label]
    /\ req' = [req EXCEPT ![w] = r]
    /\ local' = [local EXCEPT ![w] = loc]
    /\ last' = NoLast

(* ------------------------------ register ------------------------------ *)

\* register, the existence check
RegisterSelect(w, username, publicKeyY, salt) ==
    LET r == [NoRequest EXCEPT !.op = "register", !.username = username,
                               !.publicKeyY = publicKeyY, !.salt = salt]
    IN  /\ pc[w] = "idle"
        /\ IF HasUser(username)
           THEN Reply(w, r, [NoLocal EXCEPT !.existing_user = TRUE],
                      HTTPException(400, "Username already registered"))
           ELSE Goto(w, r, NoLocal, "register_commit")
        /\ UNCHANGED <<proof, trial, users, redis, nextId, issued>>

\* UniqueViolation with no unique index on the column
UniqueNotEnforced(username) == FALSE

\* username = Column(String(50), unique=True): the insert of a second row for
\* a username is refused
UniqueViolation(username) == HasUser(username)

\* register, db.add and db.commit: username is a unique column, so the insert
\* of a second row for it fails and the handler dies with IntegrityError
RegisterCommit(w) ==
    /\ pc[w] = "register_commit"
    /\ IF UniqueViolation(req[w].username)
       THEN /\ users' = users
            /\ Reply(w, req[w], local[w], HTTPException(500, "Internal Server Error"))
       ELSE /\ users' = users \cup {[username |-> req[w].username,
                                     public_key_y |-> req[w].publicKeyY,
                                     salt |-> req[w].salt]}
            /\ Reply(w, req[w], local[w],
                     [NoResponse EXCEPT !.status = 200,
                         !.detail = "User registered successfully",
                         !.sub = req[w].username])
    /\ UNCHANGED <<proof, trial, redis, nextId, issued>>

(* ----------------------------- challenge ------------------------------ *)

\* get_challenge, the user lookup
ChallengeSelect(w, username, clientR) ==
    LET r == [NoRequest EXCEPT !.op = "challenge", !.username = username,
                               !.clientR = clientR]
    IN  /\ pc[w] = "idle"
        /\ nextId + Cardinality({v \in Workers : pc[v] = "challenge_setex"}) <= MaxChallenges
        /\ IF HasUser(username)
           THEN Goto(w, r, [NoLocal EXCEPT !.public_key_y = UserRow(username).public_key_y],
                     "challenge_setex")
           ELSE Reply(w, r, NoLocal, HTTPException(404, "User not found"))
        /\ UNCHANGED <<proof, trial, users, redis, nextId, issued>>

\* ChallengeValue with the identifier about to be issued hashed in
ChallengeValueOfIssuance(clientR, public_key_y, username) ==
    Sha256Hex(clientR \o public_key_y \o username \o ToHex(nextId))

\* payload = f"{request.clientR}{user.public_key_y}{user.username}"
Payload(clientR, public_key_y, username) == clientR \o public_key_y \o username

\* c_hex = hashlib.sha256(payload.encode("utf-8")).hexdigest()
ChallengeValue(clientR, public_key_y, username) ==
    Sha256Hex(Payload(clientR, public_key_y, username))

\* Uuid4 returning the identifier it returned last
Uuid4Repeats == IF nextId > 1 THEN nextId - 1 ELSE nextId

\* uuid.uuid4(): an identifier that was not returned before
Uuid4 == nextId

\* ChallengeEntry bound to no username
ChallengeEntryAnonymous(c_hex, username, clientR) ==
    [c |-> c_hex, username |-> NoString, clientR |-> clientR]

\* ChallengeEntry without the commitment
ChallengeEntryWithoutR(c_hex, username, clientR) ==
    [c |-> c_hex, username |-> username, clientR |-> NoString]

\* json.dumps({"c": c_hex, "username": user.username, "clientR": request.clientR})
ChallengeEntry(c_hex, username, clientR) ==
    [c |-> c_hex, username |-> username, clientR |-> clientR]

\* StoreAfterSetex with nothing stored for a commitment that is not hex
StoreAfterSetexHexOnly(challenge_id, entry) ==
    IF IntBase16(entry.clientR).ok THEN (challenge_id :> entry) @@ redis ELSE redis

\* await redis.setex(redis_key, challenge_ttl, ...): the key is set, or set anew
StoreAfterSetex(challenge_id, entry) ==
    (challenge_id :> entry) @@ [j \in DOMAIN redis \ {challenge_id} |-> redis[j]]

\* get_challenge, the hash, the fresh identifier and redis.setex
ChallengeSetex(w) ==
    /\ pc[w] = "challenge_setex"
    /\ LET c_hex == ChallengeValue(req[w].clientR, local[w].public_key_y, req[w].username)
           challenge_id == Uuid4
           entry == ChallengeEntry(c_hex, req[w].username, req[w].clientR)
       IN  /\ redis' = StoreAfterSetex(challenge_id, entry)
           /\ nextId' = nextId + 1
           /\ Reply(w, req[w], [local[w] EXCEPT !.stored_data = entry],
                    [NoResponse EXCEPT !.status = 200, !.challengeId = challenge_id,
                                       !.c = c_hex])
    /\ UNCHANGED <<proof, trial, users, issued>>

\* StoreAfterExpiry with a key set without a time-to-live
StoreAfterExpiryKeeps(k) == redis

\* the store drops a key whose time-to-live has run out
StoreAfterExpiry(k) == [j \in DOMAIN redis \ {k} |-> redis[j]]

\* the entry's time-to-live runs out
Expire(k) ==
    /\ k \in DOMAIN redis
    /\ redis' = StoreAfterExpiry(k)
    /\ last' = NoLast
    /\ UNCHANGED <<proof, trial, users, nextId, pc, req, local, issued>>

(* ------------------------------- verify ------------------------------- *)

\* UsernameMatches without the comparison
UsernameNotCompared(stored_username, username) == TRUE

\* stored_username != request.username does not hold
UsernameMatches(stored_username, username) == stored_username = username

\* StoreAfterReject with the challenge consumed by the failed attempt
StoreAfterRejectDeletes(challengeId) == [j \in DOMAIN redis \ {challengeId} |-> redis[j]]

\* StoreAfterReject with the entry marked as failed: its c is blanked
StoreAfterRejectBlanks(challengeId) ==
    IF challengeId \in DOMAIN redis
    THEN [redis EXCEPT ![challengeId].c = NoString]
    ELSE redis

\* a rejected verification writes nothing to the store
StoreAfterReject(challengeId) == redis

\* StoreAfterSuccess with every challenge of the user consumed at once
StoreAfterSuccessClearsUser(challengeId) ==
    [j \in {i \in DOMAIN redis :
                i # challengeId
                /\ (challengeId \in DOMAIN redis
                       => redis[i].username # redis[challengeId].username)} |-> redis[j]]

\* StoreAfterSuccess with the delete left out
StoreAfterSuccessKeeps(challengeId) == redis

\* await redis.delete(redis_key)
StoreAfterSuccess(challengeId) == [j \in DOMAIN redis \ {challengeId} |-> redis[j]]

\* the request answered last was a Verify that found this challenge in the
\* store and was rejected
RejectedLast(challengeId) ==
    /\ last.req.op = "verify"
    /\ last.req.challengeId = challengeId
    /\ last.local.found
    /\ last.resp.status >= 400

\* ChallengeInvalid with a detail of its own for a consumed challenge
ChallengeInvalidTellsConsumed(challengeId) ==
    IF issued[challengeId] > 0
    THEN HTTPException(400, "Challenge already used")
    ELSE HTTPException(400, "Challenge expired or invalid")

\* ChallengeInvalid reported as a username mismatch is
ChallengeInvalidAsMismatch(challengeId) == HTTPException(400, "Username mismatch")

\* if not stored_data_str: raise HTTPException(400, ...)
ChallengeInvalid(challengeId) == HTTPException(400, "Challenge expired or invalid")

\* verify_proof, redis.get and the username comparison
VerifyGet(w, challengeId, s, clientR, username) ==
    LET r == [NoRequest EXCEPT !.op = "verify", !.challengeId = challengeId,
                               !.s = s, !.clientR = clientR, !.username = username]
        seen == [NoLocal EXCEPT !.consumed = issued[challengeId] > 0,
                                !.failed = RejectedLast(challengeId)]
    IN  /\ pc[w] = "idle"
        /\ IF challengeId \notin DOMAIN redis
           THEN /\ redis' = redis
                /\ Reply(w, r, seen, ChallengeInvalid(challengeId))
           ELSE LET loc == [seen EXCEPT !.found = TRUE, !.stored_data = redis[challengeId]]
                IN  IF ~UsernameMatches(redis[challengeId].username, username)
                    THEN /\ redis' = StoreAfterReject(challengeId)
                         /\ Reply(w, r, loc, HTTPException(400, "Username mismatch"))
                    ELSE /\ redis' = redis
                         /\ Goto(w, r, loc, "verify_select")
        /\ UNCHANGED <<proof, trial, users, nextId, issued>>

\* CommitmentUsed taking the commitment bound at issuance
CommitmentStored(submitted, stored) == stored

\* r_int = int(request.clientR, 16): the commitment that enters the equation
\* is the one submitted with the proof
CommitmentUsed(submitted, stored) == submitted

\* verify_proof, the user lookup and the equation
VerifySelect(w) ==
    /\ pc[w] = "verify_select"
    /\ IF ~HasUser(req[w].username)
       THEN /\ redis' = StoreAfterReject(req[w].challengeId)
            /\ Reply(w, req[w], local[w], HTTPException(404, "User not found"))
       ELSE LET user == UserRow(req[w].username)
                loc == [local[w] EXCEPT !.public_key_y = user.public_key_y]
                verdict == VerifyEquation(req[w].s,
                               CommitmentUsed(req[w].clientR, local[w].stored_data.clientR),
                               user.public_key_y, local[w].stored_data.c)
            IN  IF verdict = OK
                THEN /\ redis' = redis
                     /\ Goto(w, req[w], loc, "verify_delete")
                ELSE /\ redis' = StoreAfterReject(req[w].challengeId)
                     /\ Reply(w, req[w], loc,
                              HTTPException(IF verdict = InvalidProof THEN 401 ELSE 400,
                                            verdict))
    /\ UNCHANGED <<proof, trial, users, nextId, issued>>

\* settings.ACCESS_TOKEN_EXPIRE_MINUTES
ACCESS_TOKEN_EXPIRE_MINUTES == 30

\* the seconds on the clock, datetime.now(timezone.utc)
Times == 0..MaxNow

\* expires_delta: None, or timedelta(seconds = n)
None == [given |-> FALSE, seconds |-> 0]

Timedelta(n) == [given |-> TRUE, seconds |-> n]

\* the truth value of expires_delta in "if expires_delta:": None and a
\* timedelta of zero are both false
Truthy(expires_delta) == expires_delta.given /\ expires_delta.seconds # 0

\* create_access_token with the configured default taken whatever is passed
create_access_token_default(data, expires_delta, now, minutes) ==
    [sub |-> data, exp |-> now + 60 * minutes]

\* create_access_token(data, expires_delta) called at second now, with
\* settings.ACCESS_TOKEN_EXPIRE_MINUTES = minutes: the claims that are signed
create_access_token(data, expires_delta, now, minutes) ==
    IF Truthy(expires_delta)
    THEN [sub |-> data, exp |-> now + expires_delta.seconds]
    ELSE [sub |-> data, exp |-> now + 60 * minutes]

\* access_token_expires = timedelta(seconds=86400)
access_token_expires == Timedelta(86400)

\* verify_proof, redis.delete and the token
VerifyDelete(w) ==
    /\ pc[w] = "verify_delete"
    /\ redis' = StoreAfterSuccess(req[w].challengeId)
    /\ issued' = [issued EXCEPT ![req[w].challengeId] = @ + 1]
    /\ \E now \in Times :
           Reply(w, req[w], [local[w] EXCEPT !.now = now],
                 [NoResponse EXCEPT !.status = 200, !.detail = "Bearer",
                     !.sub = req[w].username, !.expiresIn = 86400,
                     !.token = create_access_token(req[w].username, access_token_expires,
                                   now, ACCESS_TOKEN_EXPIRE_MINUTES)])
    /\ UNCHANGED <<proof, trial, users, nextId>>

\* verify_proof from its first line to its return, on the store as it is:
\* what a request is answered when nothing else runs in between
VerifyResult(found, stored_data, s, clientR, username) ==
    IF ~found THEN HTTPException(400, "Challenge expired or invalid")
    ELSE IF ~UsernameMatches(stored_data.username, username)
    THEN HTTPException(400, "Username mismatch")
    ELSE IF ~HasUser(username) THEN HTTPException(404, "User not found")
    ELSE LET verdict == VerifyEquation(s, CommitmentUsed(clientR, stored_data.clientR),
                                       UserRow(username).public_key_y, stored_data.c)
         IN  IF verdict = OK
             THEN [NoResponse EXCEPT !.status = 200, !.detail = "Bearer",
                                     !.sub = username, !.expiresIn = 86400]
             ELSE HTTPException(IF verdict = InvalidProof THEN 401 ELSE 400, verdict)

(* ---------------------------- specification --------------------------- *)

\* one step of the service with handlers W and requests drawn from the given sets
Step(W, Us, Ys, ChalRs, Proofs) ==
    \/ \E w \in W, u \in Us, y \in Ys, salt \in SaltInputs : RegisterSelect(w, u, y, salt)
    \/ \E w \in W : RegisterCommit(w)
    \/ \E w \in W, u \in Us, r \in ChalRs : ChallengeSelect(w, u, r)
    \/ \E w \in W : ChallengeSetex(w)
    \/ \E k \in ChallengeIds : Expire(k)
    \/ \E w \in W, k \in ChallengeIds, pf \in Proofs, u \in Us :
           VerifyGet(w, k, pf[1], pf[2], u)
    \/ \E w \in W : VerifySelect(w)
    \/ \E w \in W : VerifyDelete(w)

\* two concurrent handlers, one user, well-formed requests
Next == Step(Workers, {<<"a">>}, {<<"1", "2">>}, {<<"c">>}, WellFormedProofs)

Spec == Init /\ [][Next]_vars

\* clientR as sent to Challenge by one handler at a time: hex, and not hex
SeqCommitInputs == {<<"c">>, <<"g">>}

\* one handler at a time, all usernames, keys and proofs
NextSeq == Step({1}, Usernames, KeyInputs, SeqCommitInputs, ProofInputs)

SpecSeq == Init /\ [][NextSeq]_vars

\* Spec with the store's time-to-live running: a key set by setex does not
\* stay for ever
SpecTTL == Spec /\ \A k \in ChallengeIds : WF_vars(Expire(k))

\* two concurrent handlers, every username and key, one proof
NextIdentity ==
    Step(Workers, Usernames, KeyInputs, {<<"c">>}, {<<<<"4">>, <<"c">>>>})

SpecIdentity == Init /\ [][NextIdentity]_vars

\* (s, clientR) that int(_, 16) parses and that lie outside the group:
\* R = 0, R = 0x23 = 35 >= p, s = -7; and the toy run's proof
RangeProofs ==
    {<<<<"4">>, <<"0">>>>, <<<<"4">>, <<"2", "3">>>>, <<<<"-", "7">>, <<"c">>>>,
     <<<<"4">>, <<"c">>>>}

\* one handler, one user, proofs with numbers outside the group
NextRange == Step({1}, {<<"a">>}, {<<"1", "2">>}, {<<"c">>}, RangeProofs)

SpecRange == Init /\ [][NextRange]_vars

(* ------------------------- prover and verifier ------------------------ *)

\* the client's side of the protocol: Y = g^x, R = g^r, s = (r + c*x) mod q,
\* sent as lowercase hex
ProverKey(x) == ToHex(ModExp(G, x, P))

ProverCommit(r) == ToHex(ModExp(G, r, P))

ProverResponse(r, c, x) == ToHex((r + c * x) % Q)

InitProver ==
    /\ InitService
    /\ proof \in [stage : {"drawn"}, x : 1..(Q - 1), r : 1..(Q - 1),
                  c : 0..MaxChallengeValue, publicKeyY : {NoString},
                  clientR : {NoString}, s : {NoString}, verdict : {""}]
    /\ trial = NoTrial

\* the prover computes its key, commitment and response
Prove ==
    /\ proof.stage = "drawn"
    /\ proof' = [proof EXCEPT !.stage = "proved",
                              !.publicKeyY = ProverKey(proof.x),
                              !.clientR = ProverCommit(proof.r),
                              !.s = ProverResponse(proof.r, proof.c, proof.x)]
    /\ UNCHANGED <<service, trial>>

\* the verifier's try block runs on what the prover sent
Check ==
    /\ proof.stage = "proved"
    /\ proof' = [proof EXCEPT !.stage = "checked",
                              !.verdict = VerifyEquation(proof.s, proof.clientR,
                                              proof.publicKeyY,
                                              HexDigits(proof.c, DigestLen))]
    /\ UNCHANGED <<service, trial>>

NextProver == Prove \/ Check

SpecProver == InitProver /\ [][NextProver]_vars

(* ------------------------------- tokens ------------------------------- *)

\* the durations create_access_token is called with: none, zero, a minute,
\* the configured default, a day
DeltaInputs == {None, Timedelta(0), Timedelta(60), Timedelta(1800), Timedelta(86400)}

\* settings.ACCESS_TOKEN_EXPIRE_MINUTES as shipped, and set to a day
MinutesInputs == {ACCESS_TOKEN_EXPIRE_MINUTES, 1440}

InitToken ==
    /\ InitService
    /\ proof = NoProof
    /\ trial \in [stage : {"drawn"}, data : Usernames, expires_delta : DeltaInputs,
                  now : Times, minutes : MinutesInputs, token : {NoToken}]

\* one call of create_access_token
CreateToken ==
    /\ trial.stage = "drawn"
    /\ trial' = [trial EXCEPT !.stage = "created",
                              !.token = create_access_token(trial.data, trial.expires_delta,
                                            trial.now, trial.minutes)]
    /\ UNCHANGED <<service, proof>>

NextToken == CreateToken

SpecToken == InitToken /\ [][NextToken]_vars

(* ---------------------------- hash input ------------------------------ *)

\* (clientR, publicKeyY, username) as get_challenge may be handed them
Triples ==
    {<<"c">>, <<"c", "1">>} \X {<<"1", "2">>, <<"2">>} \X (Usernames \cup {<<"2", "a">>})

InitPayload ==
    /\ InitService
    /\ proof = NoProof
    /\ trial \in [stage : {"drawn"}, first : Triples, second : Triples,
                  payloads : {<<>>}, cs : {<<>>}]

\* the hash input and the challenge value of each of the two triples
HashPayloads ==
    /\ trial.stage = "drawn"
    /\ trial' = [trial EXCEPT
                     !.stage = "hashed",
                     !.payloads = <<Payload(trial.first[1], trial.first[2], trial.first[3]),
                                    Payload(trial.second[1], trial.second[2], trial.second[3])>>,
                     !.cs = <<ChallengeValue(trial.first[1], trial.first[2], trial.first[3]),
                              ChallengeValue(trial.second[1], trial.second[2], trial.second[3])>>]
    /\ UNCHANGED <<service, proof>>

NextPayload == HashPayloads

SpecPayload == InitPayload /\ [][NextPayload]_vars

(* ------------------------------ adversary ----------------------------- *)

\* a commitment computed from public values alone, for a response s picked
\* at will: R = g^s * (Y^c)^-1 mod p
AttackerCommit(s, public_key_y, c_hex) ==
    ToHex((ModExp(G, IntBase16(s).val, P)
           * ModInv(ModExp(IntBase16(public_key_y).val, IntBase16(c_hex).val, P), P)) % P)

\* a Verify sent by a party that holds p, q, g, the username, Y and the c
\* returned by Challenge, and no secret
AttackerVerify(w, challengeId, s) ==
    /\ challengeId \in DOMAIN redis
    /\ VerifyGet(w, challengeId, s,
                 AttackerCommit(s, UserRow(redis[challengeId].username).public_key_y,
                                redis[challengeId].c),
                 redis[challengeId].username)

\* users register; every Challenge and Verify comes from the adversary
NextAttack ==
    \/ \E u \in Usernames, salt \in SaltInputs : RegisterSelect(1, u, <<"1", "2">>, salt)
    \/ RegisterCommit(1)
    \/ \E u \in Usernames, r \in CommitInputs : ChallengeSelect(1, u, r)
    \/ ChallengeSetex(1)
    \/ \E k \in ChallengeIds : Expire(k)
    \/ \E k \in ChallengeIds, s \in {<<"4">>, <<"5">>} : AttackerVerify(1, k, s)
    \/ VerifySelect(1)
    \/ VerifyDelete(1)

SpecAttack == Init /\ [][NextAttack]_vars

(* ------------------------------- claims ------------------------------- *)

\* the request answered last was a Verify
LastVerify == last.req.op = "verify"

\* the request answered last was a Verify that returned a token
Succeeded == LastVerify /\ last.resp.status = 200

\* the challenge the last Verify named was in the store and bound to the
\* submitted username, which is registered
Admitted ==
    /\ LastVerify
    /\ last.local.found
    /\ last.req.username = last.local.stored_data.username
    /\ HasUser(last.req.username)

WellFormed(str) == IntBase16(str).ok

\* g^s mod p = (R * Y^c) mod p on the parsed values
EquationHolds(s, clientR, public_key_y, c_hex) ==
    PyPow(G, IntBase16(s).val, P).val
        = (IntBase16(clientR).val
           * ModExp(IntBase16(public_key_y).val, IntBase16(c_hex).val, P)) % P

\* n with bit i inverted
FlipBit(n, i) == IF (n \div (2 ^ i)) % 2 = 1 THEN n - 2 ^ i ELSE n + 2 ^ i

\* C1: no challenge identifier ever has more than one token issued for it,
\* however the reads, checks and deletes of concurrent Verify requests
\* interleave.
AtMostOneTokenPerChallenge == \A k \in ChallengeIds : issued[k] <= 1

\* C2: a Verify whose store read runs after a Verify on the same
\* challengeId has succeeded is answered 400 "Challenge expired or invalid",
\* whatever s, R and username it carries; it never gets past the read.
SingleUse ==
    /\ (LastVerify /\ last.local.consumed)
           => (last.resp.status = 400 /\ last.resp.detail = "Challenge expired or invalid")
    /\ \A w \in Workers : ~local[w].consumed

SingleUseWitness ==
    /\ LastVerify
    /\ last.local.consumed
    /\ last.resp.status = 400
    /\ issued[last.req.challengeId] > 0

\* C3: a Verify that succeeds submitted the commitment R that was bound to
\* the challenge at issuance.
CommitmentRevalidated ==
    Succeeded => IntBase16(last.req.clientR).val
                     = IntBase16(last.local.stored_data.clientR).val

\* C4: when every Challenge and Verify is sent by a party that computes its
\* (s, R) from p, q, g, the username, Y and c alone, no token is issued.
NoTokenWithoutSecret == \A k \in ChallengeIds : issued[k] = 0

\* the toy run of the specification: Y = 18, R = 12, c = 7
ToyRun ==
    /\ last.req.clientR = <<"c">>
    /\ last.local.public_key_y = <<"1", "2">>
    /\ last.local.stored_data.c = HexDigits(7, DigestLen)

\* C5: for a present challenge, matching username, registered identity and
\* well-formed hex inputs, Verify returns the token exactly when
\* g^s mod p = (R * Y^c) mod p for the c read from the store, which is the c
\* computed at issuance, and answers 401 "Invalid proof" otherwise; with
\* Y = 18, R = 12, c = 7 it accepts s = 4 and rejects s = 5.
VerifyDecidedByEquation ==
    /\ \A k \in DOMAIN redis :
           HasUser(redis[k].username)
               => redis[k].c = ChallengeValue(redis[k].clientR,
                                    UserRow(redis[k].username).public_key_y,
                                    redis[k].username)
    /\ (/\ Admitted
        /\ WellFormed(last.req.s)
        /\ WellFormed(last.req.clientR)
        /\ WellFormed(UserRow(last.req.username).public_key_y))
           => IF EquationHolds(last.req.s, last.req.clientR,
                               UserRow(last.req.username).public_key_y,
                               last.local.stored_data.c)
              THEN last.resp.status = 200 /\ last.resp.sub = last.req.username
              ELSE last.resp.status = 401 /\ last.resp.detail = "Invalid proof"
    /\ (Admitted /\ ToyRun /\ last.req.s = <<"4">>) => last.resp.status = 200
    /\ (Admitted /\ ToyRun /\ last.req.s = <<"5">>) => last.resp.status = 401

VerifyDecidedByEquationWitness ==
    /\ Succeeded
    /\ ToyRun
    /\ last.req.s = <<"4">>

\* the toy run with s = 5 is rejected
ToyRunRejected ==
    /\ Admitted
    /\ ToyRun
    /\ last.req.s = <<"5">>
    /\ last.resp.detail = "Invalid proof"

\* C6: for every secret x and nonce r in 1..q-1 and every challenge value c,
\* the verifier accepts Y = g^x, R = g^r, s = (r + c*x) mod q.
HonestProverAccepted == proof.stage = "checked" => proof.verdict = OK

HonestProverAcceptedWitness ==
    /\ proof.stage = "checked"
    /\ proof.x = 3 /\ proof.r = 5 /\ proof.c = 7
    /\ proof.publicKeyY = <<"1", "2">>
    /\ proof.clientR = <<"c">>
    /\ proof.s = <<"4">>
    /\ proof.verdict = OK

\* C7: once (s, R) has been accepted for the stored c, the same proof with
\* one bit of s inverted, or one bit of R inverted, or checked against the c
\* of any other issuance, is answered "Invalid proof".
TamperedProofRejected ==
    Succeeded =>
        LET s == last.req.s
            clientR == last.req.clientR
            y == last.local.public_key_y
            c == last.local.stored_data.c
        IN  /\ \A i \in 0..MaxBit :
                   VerifyEquation(ToHex(FlipBit(IntBase16(s).val, i)), clientR, y, c)
                       = InvalidProof
            /\ \A i \in 0..MaxBit :
                   VerifyEquation(s, ToHex(FlipBit(IntBase16(clientR).val, i)), y, c)
                       = InvalidProof
            /\ \A k \in DOMAIN redis :
                   VerifyEquation(s, clientR, y, redis[k].c) = InvalidProof

\* C8: a Verify naming another username than the one stored with the
\* challenge is answered 400 "Username mismatch", gets no token, and the
\* entry stays in the store as issued.
UsernameBinding ==
    (/\ LastVerify
     /\ last.local.found
     /\ last.req.username # last.local.stored_data.username)
        => /\ last.resp.status = 400
           /\ last.resp.detail = "Username mismatch"
           /\ last.resp.sub = NoString
           /\ last.req.challengeId \in DOMAIN redis
           /\ redis[last.req.challengeId] = last.local.stored_data

UsernameBindingWitness ==
    /\ LastVerify
    /\ last.local.found
    /\ last.req.username # last.local.stored_data.username
    /\ last.resp.detail = "Username mismatch"
    /\ HasUser(last.req.username)
    /\ VerifyEquation(last.req.s, last.req.clientR,
                      UserRow(last.req.username).public_key_y,
                      last.local.stored_data.c) = OK

\* C9: a step that answers with an error status changes neither the users
\* table nor the challenge store.
ErrorsLeaveStateUnchanged ==
    [][(last' # last /\ last'.resp.status >= 400)
           => (users' = users /\ redis' = redis)]_vars

ErrorsLeaveStateUnchangedWitness ==
    /\ LastVerify
    /\ last.resp.status = 401
    /\ last.local.found
    /\ last.req.challengeId \in DOMAIN redis
    /\ redis[last.req.challengeId] = last.local.stored_data

\* C10: a rejected Verify leaves the store as it was, and a Verify with a
\* correct proof that reads a challenge right after a rejected attempt on it
\* returns the token.
NoFailedState ==
    /\ [][(last' # last /\ last'.req.op = "verify" /\ last'.resp.status >= 400)
              => redis' = redis]_vars
    /\ [](Admitted
          /\ last.local.failed
          /\ WellFormed(last.req.s)
          /\ WellFormed(last.req.clientR)
          /\ WellFormed(last.local.public_key_y)
          /\ EquationHolds(last.req.s, last.req.clientR, last.local.public_key_y,
                           last.local.stored_data.c)
              => last.resp.status = 200)

NoFailedStateWitness ==
    /\ Succeeded
    /\ last.local.failed

\* the last Verify named a challenge that was not in the store
Absent == LastVerify /\ ~last.local.found

\* C11: a Verify on a challengeId with no entry in the store is answered
\* 400 "Challenge expired or invalid" and gets no token, with one and the
\* same response whether the identifier was never issued, was consumed, or
\* has expired.
AbsentChallengeInvalid ==
    Absent => /\ last.resp = HTTPException(400, "Challenge expired or invalid")
              /\ last.resp.sub = NoString
              /\ last.resp.expiresIn = 0

\* an identifier that was issued and never consumed is gone: it expired
AbsentChallengeInvalidWitness ==
    /\ Absent
    /\ last.req.challengeId < nextId
    /\ issued[last.req.challengeId] = 0
    /\ last.resp.status = 400

\* the identifier of the last Verify was never issued
AbsentNeverIssued == Absent /\ last.req.challengeId >= nextId /\ last.resp.status = 400

\* the identifier of the last Verify had been consumed
AbsentConsumed == Absent /\ last.local.consumed /\ last.resp.status = 400

\* C12: a Challenge issuance puts its entry under an identifier that was
\* never used before, and an identifier whose entry has been removed, by a
\* successful Verify or by expiry, never has an entry again.
FreshIdentifiers ==
    /\ [](\A k \in DOMAIN redis : k < nextId)
    /\ [][\A k \in ChallengeIds :
              /\ (k \in DOMAIN redis' /\ k \notin DOMAIN redis)
                     => (k >= nextId /\ k < nextId' /\ last'.resp.challengeId = k)
              /\ (k < nextId /\ k \notin DOMAIN redis) => k \notin DOMAIN redis']_vars

\* identifier 1 was issued and its entry is gone; a later issuance has put
\* its entry under identifier 2
FreshIdentifiersWitness ==
    /\ 1 \notin DOMAIN redis
    /\ last.req.op = "challenge"
    /\ last.resp.challengeId = 2
    /\ 2 \in DOMAIN redis

\* C13: with the store's time-to-live running, every entry is removed in the
\* end and stays removed, with or without any further request; a Verify that
\* then names it is answered 400 "Challenge expired or invalid".
EveryEntryRemoved ==
    /\ \A k \in ChallengeIds : [](k \in DOMAIN redis => <>[](k \notin DOMAIN redis))
    /\ []((Absent /\ last.req.challengeId < nextId)
              => last.resp.detail = "Challenge expired or invalid")

\* a challenge that no Verify consumed has expired, and a Verify on it has
\* been turned away
EveryEntryRemovedWitness ==
    /\ Absent
    /\ last.req.challengeId < nextId
    /\ issued[last.req.challengeId] = 0
    /\ last.resp.detail = "Challenge expired or invalid"
    /\ DOMAIN redis = {}

\* the request answered last was a Register
LastRegister == last.req.op = "register"

\* the rows of the users table for a username
RowsOf(username) == {row \in users : row.username = username}

\* C14: Register is answered 400 "Username already registered" exactly when
\* the username is taken; for a username that is free it succeeds whatever
\* publicKeyY and salt are, and the table then holds the submitted
\* username, publicKeyY and salt.
RegisterFailsOnlyOnDuplicate ==
    LastRegister =>
        IF last.local.existing_user
        THEN /\ last.resp = HTTPException(400, "Username already registered")
             /\ RowsOf(last.req.username) # {}
        ELSE /\ last.resp.status = 200
             /\ RowsOf(last.req.username)
                    = {[username |-> last.req.username,
                        public_key_y |-> last.req.publicKeyY,
                        salt |-> last.req.salt]}

\* a Register for a free username with a key that is not hex has succeeded
RegisterAnyKey ==
    /\ LastRegister
    /\ last.resp.status = 200
    /\ last.req.publicKeyY = <<"z", "z">>
    /\ UserRow(last.req.username).public_key_y = <<"z", "z">>

\* C15: once a username is registered, the row stored for it, its public
\* key and its salt, stays as it is and is never removed or doubled,
\* whatever Register, Challenge and Verify requests follow.
IdentityImmutable ==
    [][\A u \in Usernames : RowsOf(u) # {} => RowsOf(u)' = RowsOf(u)]_vars

\* a Register for a taken username with another key has been turned away and
\* the first key is still the one stored
IdentityImmutableWitness ==
    /\ LastRegister
    /\ last.resp.status >= 400
    /\ RowsOf(last.req.username) # {}
    /\ \A row \in RowsOf(last.req.username) : row.public_key_y # last.req.publicKeyY

\* the request answered last was a Challenge
LastChallenge == last.req.op = "challenge"

\* C16: Challenge is answered 404 "User not found" exactly when the
\* username is not registered; for a registered username it succeeds for
\* every clientR, hex or not, and the step that answers it adds exactly one
\* entry to the store, under the identifier returned, and touches no other.
ChallengeFailsOnlyOnUnknownUser ==
    /\ [](LastChallenge =>
              IF HasUser(last.req.username)
              THEN /\ last.resp.status = 200
                   /\ last.resp.challengeId \in DOMAIN redis
                   /\ redis[last.resp.challengeId].clientR = last.req.clientR
              ELSE last.resp = HTTPException(404, "User not found"))
    /\ [][(last' # last /\ last'.req.op = "challenge")
              => IF last'.resp.status = 200
                 THEN /\ last'.resp.challengeId \notin DOMAIN redis
                      /\ DOMAIN redis' = DOMAIN redis \cup {last'.resp.challengeId}
                      /\ \A j \in DOMAIN redis : redis'[j] = redis[j]
                 ELSE redis' = redis]_vars

\* a Challenge with a clientR that is not hex has succeeded and its entry is
\* in the store
ChallengeFailsOnlyOnUnknownUserWitness ==
    /\ LastChallenge
    /\ last.resp.status = 200
    /\ ~WellFormed(last.req.clientR)
    /\ last.resp.challengeId \in DOMAIN redis
    /\ redis[last.resp.challengeId].clientR = last.req.clientR

\* a Challenge for a username that is not registered has been answered 404
ChallengeUnknownUser == LastChallenge /\ last.resp.status = 404 /\ redis # <<>>

\* C17: the c a Challenge returns is the hash of clientR, the registered Y
\* and the username and of nothing else: it equals the c of every other
\* issuance for the same username and clientR still in the store, which
\* stands under another challengeId.
ChallengeDeterministic ==
    (LastChallenge /\ last.resp.status = 200) =>
        /\ last.resp.c = ChallengeValue(last.req.clientR,
                              UserRow(last.req.username).public_key_y,
                              last.req.username)
        /\ \A k \in DOMAIN redis :
               (/\ k # last.resp.challengeId
                /\ redis[k].username = last.req.username
                /\ redis[k].clientR = last.req.clientR) => redis[k].c = last.resp.c

\* two issuances for one username and clientR: two identifiers, one c
ChallengeDeterministicWitness ==
    /\ LastChallenge
    /\ last.resp.status = 200
    /\ \E k \in DOMAIN redis :
           /\ k # last.resp.challengeId
           /\ redis[k].username = last.req.username
           /\ redis[k].clientR = last.req.clientR
           /\ redis[k].c = last.resp.c

\* C18: the entry created by a Challenge holds the c returned to the
\* client, the username of the identity and the clientR submitted, and an
\* entry stays exactly as created for as long as it is in the store.
EntryAsIssued ==
    /\ []((LastChallenge /\ last.resp.status = 200)
              => /\ last.resp.challengeId \in DOMAIN redis
                 /\ redis[last.resp.challengeId]
                        = [c |-> last.resp.c,
                           username |-> UserRow(last.req.username).username,
                           clientR |-> last.req.clientR])
    /\ [][\A k \in DOMAIN redis : k \in DOMAIN redis' => redis'[k] = redis[k]]_vars

\* a Challenge has stored its entry as issued while an earlier entry is in
\* the store
EntryAsIssuedWitness ==
    /\ LastChallenge
    /\ last.resp.status = 200
    /\ redis[last.resp.challengeId].clientR = last.req.clientR
    /\ redis[last.resp.challengeId].c = last.resp.c
    /\ \E k \in DOMAIN redis : k # last.resp.challengeId

\* C19: a Verify on a present challenge, with the matching username of a
\* registered identity, whose s, whose R or whose stored Y is not a
\* hexadecimal number is answered 400 "Invalid hex format": never a fault,
\* never a verdict of the equation.
MalformedInputRejected ==
    (/\ Admitted
     /\ \/ ~WellFormed(last.req.s)
        \/ ~WellFormed(last.req.clientR)
        \/ ~WellFormed(UserRow(last.req.username).public_key_y))
        => last.resp = HTTPException(400, "Invalid hex format")

\* the stored key is not hex, s and R are
MalformedInputRejectedWitness ==
    /\ Admitted
    /\ WellFormed(last.req.s)
    /\ WellFormed(last.req.clientR)
    /\ ~WellFormed(UserRow(last.req.username).public_key_y)
    /\ last.resp.detail = "Invalid hex format"

\* s is not hex, R and the stored key are
MalformedResponse ==
    /\ Admitted
    /\ ~WellFormed(last.req.s)
    /\ WellFormed(last.req.clientR)
    /\ WellFormed(UserRow(last.req.username).public_key_y)
    /\ last.resp.detail = "Invalid hex format"

\* R is not hex, s and the stored key are
MalformedCommitment ==
    /\ Admitted
    /\ WellFormed(last.req.s)
    /\ ~WellFormed(last.req.clientR)
    /\ WellFormed(UserRow(last.req.username).public_key_y)
    /\ last.resp.detail = "Invalid hex format"

\* s lies in 0..q-1 and R in 1..p-1
InRange(s, clientR) ==
    /\ IntBase16(s).val \in 0..(Q - 1)
    /\ IntBase16(clientR).val \in 1..(P - 1)

\* C20: a Verify whose s and R parse as hex but lie outside the group
\* (R = 0, R >= p, s < 0) is answered 400 "Invalid hex format" and is not
\* decided by the equation.
OutOfRangeRejected ==
    (/\ Admitted
     /\ WellFormed(last.req.s)
     /\ WellFormed(last.req.clientR)
     /\ WellFormed(UserRow(last.req.username).public_key_y)
     /\ ~InRange(last.req.s, last.req.clientR))
        => last.resp = HTTPException(400, "Invalid hex format")

\* R = 35 >= p has been accepted and a token returned
OutOfRangeAccepted ==
    /\ Succeeded
    /\ IntBase16(last.req.clientR).val >= P

\* the raise statements of register, get_challenge and verify_proof: the
\* error kind each stands for, with its status code and detail
ErrorTable ==
    {[kind |-> "DuplicateIdentity", status |-> 400, detail |-> "Username already registered"],
     [kind |-> "IdentityNotFound", status |-> 404, detail |-> "User not found"],
     [kind |-> "ChallengeInvalid", status |-> 400, detail |-> "Challenge expired or invalid"],
     [kind |-> "UsernameMismatch", status |-> 400, detail |-> "Username mismatch"],
     [kind |-> "MalformedInput", status |-> 400, detail |-> InvalidHex],
     [kind |-> "InvalidProof", status |-> 401, detail |-> InvalidProof]}

\* the error kind the request answered last ran into, from what it found
KindOfLast ==
    CASE LastRegister /\ last.local.existing_user -> "DuplicateIdentity"
      [] LastChallenge /\ ~HasUser(last.req.username) -> "IdentityNotFound"
      [] LastVerify /\ ~last.local.found -> "ChallengeInvalid"
      [] LastVerify /\ last.local.found
            /\ last.req.username # last.local.stored_data.username -> "UsernameMismatch"
      [] Admitted /\ ~(/\ WellFormed(last.req.s)
                        /\ WellFormed(last.req.clientR)
                        /\ WellFormed(last.local.public_key_y)) -> "MalformedInput"
      [] Admitted /\ WellFormed(last.req.s) /\ WellFormed(last.req.clientR)
            /\ WellFormed(last.local.public_key_y)
            /\ ~EquationHolds(last.req.s, last.req.clientR, last.local.public_key_y,
                              last.local.stored_data.c) -> "InvalidProof"
      [] OTHER -> "none"

\* C21 as stated: the status code of an error response belongs to one error
\* kind only, the kind the request ran into.
DistinctStatusPerKind ==
    KindOfLast # "none" =>
        \A e \in ErrorTable : e.status = last.resp.status => e.kind = KindOfLast

\* C21: every error kind is reported with its own pair of status code and
\* detail: the pair of an error response belongs to one error kind only, the
\* kind the request ran into (four kinds share the status code 400).
DistinctStatusAndDetailPerKind ==
    KindOfLast # "none" =>
        /\ [kind |-> KindOfLast, status |-> last.resp.status, detail |-> last.resp.detail]
               \in ErrorTable
        /\ \A e \in ErrorTable :
               (e.status = last.resp.status /\ e.detail = last.resp.detail)
                   => e.kind = KindOfLast

\* a request with a malformed number has been answered 400, the status code
\* of three other kinds, with a detail of its own
DistinctStatusAndDetailPerKindWitness ==
    /\ KindOfLast = "MalformedInput"
    /\ last.resp.status = 400
    /\ last.resp.detail = InvalidHex
    /\ \E e \in ErrorTable : e.kind # KindOfLast /\ e.status = last.resp.status

\* tokens returned so far, and challenges issued so far
RECURSIVE IssuedUpTo(_)
IssuedUpTo(k) == IF k = 0 THEN 0 ELSE issued[k] + IssuedUpTo(k - 1)

TokensIssued == IssuedUpTo(MaxChallenges)

ChallengesIssued == nextId - 1

\* C22: a token is returned only by a Verify that found the challenge in the
\* store, named the username stored with it and passed the equation; its
\* subject is that username, which is registered; and there are never more
\* tokens than challenges issued.
TokenOnlyForVerifiedChallenge ==
    /\ Succeeded =>
           /\ last.local.found
           /\ last.req.username = last.local.stored_data.username
           /\ VerifyEquation(last.req.s, last.req.clientR, last.local.public_key_y,
                             last.local.stored_data.c) = OK
           /\ last.resp.token.sub = last.local.stored_data.username
           /\ last.resp.sub = last.resp.token.sub
           /\ HasUser(last.resp.token.sub)
    /\ \A k \in ChallengeIds : issued[k] > 0 => k < nextId
    /\ TokensIssued <= ChallengesIssued

\* the token of a successful Verify expires 86400 seconds after it was
\* created, and the response says so
VerifyTokenExpiry ==
    Succeeded => /\ last.resp.token.exp = last.local.now + 86400
                 /\ last.resp.expiresIn = 86400
                 /\ last.resp.detail = "Bearer"
                 /\ last.resp.token.exp # last.local.now + 60 * ACCESS_TOKEN_EXPIRE_MINUTES

\* C23: a token returned by Verify expires 86400 seconds after it was
\* created, with expiresIn = 86400 and type "Bearer", whatever the
\* configured default; and create_access_token takes the configured default
\* only when it is called without a duration: called with one, the token
\* expires that duration after the call.
TokenExpiry ==
    /\ VerifyTokenExpiry
    /\ trial.stage = "created" =>
           trial.token.exp = trial.now + (IF trial.expires_delta.given
                                          THEN trial.expires_delta.seconds
                                          ELSE 60 * trial.minutes)

\* called with a duration of a day, the token expires a day after the call
TokenExpiryGiven ==
    /\ trial.stage = "created"
    /\ trial.expires_delta = Timedelta(86400)
    /\ trial.minutes = ACCESS_TOKEN_EXPIRE_MINUTES
    /\ trial.token.exp = trial.now + 86400

\* C24: Verify makes its checks in one order and the first that fails gives
\* the error: challenge absent, then username mismatch, then unknown user,
\* then malformed number, then the equation; an unknown challengeId with an
\* s that is not hex is answered "Challenge expired or invalid", and a
\* mismatched username with such an s "Username mismatch".
ChecksInOrder ==
    LastVerify =>
        LET stored == last.local.stored_data
            y == UserRow(last.req.username).public_key_y
        IN  IF ~last.local.found
            THEN last.resp = HTTPException(400, "Challenge expired or invalid")
            ELSE IF last.req.username # stored.username
            THEN last.resp = HTTPException(400, "Username mismatch")
            ELSE IF ~HasUser(last.req.username)
            THEN last.resp = HTTPException(404, "User not found")
            ELSE IF ~(WellFormed(last.req.s) /\ WellFormed(last.req.clientR) /\ WellFormed(y))
            THEN last.resp = HTTPException(400, "Invalid hex format")
            ELSE IF ~EquationHolds(last.req.s, last.req.clientR, y, stored.c)
            THEN last.resp = HTTPException(401, "Invalid proof")
            ELSE last.resp.status = 200

\* a mismatched username with an s that is not hex
ChecksInOrderWitness ==
    /\ LastVerify
    /\ last.local.found
    /\ last.req.username # last.local.stored_data.username
    /\ ~WellFormed(last.req.s)
    /\ last.resp.detail = "Username mismatch"

\* an unknown challengeId with an s that is not hex
UnknownChallengeMalformed ==
    /\ Absent
    /\ ~WellFormed(last.req.s)
    /\ last.resp.detail = "Challenge expired or invalid"

\* a number that is not hex with an equation that would not hold either
MalformedBeforeProof ==
    /\ Admitted
    /\ ~WellFormed(last.req.clientR)
    /\ last.resp.detail = "Invalid hex format"

\* the entry of a challenge, or none
EntryOf(k) == IF k \in DOMAIN redis THEN redis[k] ELSE NoEntry

\* status, detail and subject of a response
Answer(resp) == <<resp.status, resp.detail, resp.sub>>

\* this step belongs to challenge k: a Verify naming k reads, checks or
\* deletes, the Challenge that returns k stores its entry, or k expires
ActsOn(k) ==
    \/ \E w \in Workers :
           /\ pc'[w] # pc[w]
           /\ \/ req[w].op = "verify" /\ req[w].challengeId = k
              \/ req'[w].op = "verify" /\ req'[w].challengeId = k
    \/ last' # last /\ last'.req.op = "verify" /\ last'.req.challengeId = k
    \/ last' # last /\ last'.req.op = "challenge" /\ last'.resp.challengeId = k
    \/ pc' = pc /\ k \in DOMAIN redis /\ k \notin DOMAIN redis'

\* C25: challenges are independent: the answer to a Verify is decided by
\* the entry of the challenge it names and the row of its user alone, and a
\* step that issues, checks, consumes or expires challenge A leaves the
\* entry of every other challenge B, and every user row, as it was.
ChallengesIndependent ==
    /\ [](LastVerify =>
              Answer(last.resp)
                  = Answer(VerifyResult(last.local.found, last.local.stored_data,
                                        last.req.s, last.req.clientR, last.req.username)))
    /\ [][\A a \in ChallengeIds, b \in ChallengeIds :
              (a # b /\ ActsOn(a)) =>
                  /\ (b \in DOMAIN redis') = (b \in DOMAIN redis)
                  /\ EntryOf(b)' = EntryOf(b)
                  /\ users' = users]_vars

\* two challenges of one user were outstanding together; the later one has
\* been consumed and the earlier one is still in the store
ChallengesIndependentWitness ==
    /\ Succeeded
    /\ last.req.challengeId = 2
    /\ 1 \in DOMAIN redis
    /\ redis[1].username = last.req.username

\* C26: a Verify returns a token only if the entry of its challenge is
\* still in the store when it deletes it: if the entry expired after the
\* read, no token is returned.
TokenOnlyIfStillPresent ==
    [][(last' # last /\ last'.req.op = "verify" /\ last'.resp.status = 200)
          => last'.req.challengeId \in DOMAIN redis]_vars

\* C27: the username stored with every entry of the store is that of a
\* registered identity, so no Verify is answered 404 "User not found".
EntriesOfRegisteredUsers ==
    /\ \A k \in DOMAIN redis : RowsOf(redis[k].username) # {}
    /\ \A w \in Workers :
           pc[w] \in {"verify_select", "verify_delete"} => RowsOf(req[w].username) # {}
    /\ ~(LastVerify /\ last.resp.status = 404)

\* a Verify has gone through the user lookup and on to the equation, while
\* another entry is in the store
EntriesOfRegisteredUsersWitness ==
    /\ Admitted
    /\ last.resp.status = 401
    /\ redis # <<>>
    /\ \A k \in DOMAIN redis : RowsOf(redis[k].username) # {}

\* C28: when two Register requests for one free username both run the
\* existence check before either commits, one succeeds, the table holds one
\* row for the username, and the other is answered 400 "Username already
\* registered", not a fault.
RacingRegistersOneDuplicate ==
    /\ \A u \in Usernames : Cardinality(RowsOf(u)) <= 1
    /\ (LastRegister /\ ~last.local.existing_user /\ last.resp.status # 200)
           => /\ RowsOf(last.req.username) # {}
              /\ last.resp = HTTPException(400, "Username already registered")

\* C29: two different triples (clientR, publicKeyY, username) never give
\* the same hash input, and so never the same challenge value.
PayloadBindsFields ==
    (trial.stage = "hashed" /\ trial.first # trial.second)
        => /\ trial.payloads[1] # trial.payloads[2]
           /\ trial.cs[1] # trial.cs[2]

\* two different triples with different hash inputs
PayloadsDiffer ==
    /\ trial.stage = "hashed"
    /\ trial.first # trial.second
    /\ trial.payloads[1] # trial.payloads[2]

\* C30: the answer to a Verify does not depend on the clientR stored with
\* the challenge: it is the answer the same request would get from a store
\* that differs in the stored clientR of that entry only.
StoredCommitmentIgnored ==
    LastVerify =>
        \A other \in CommitInputs :
            Answer(last.resp)
                = Answer(VerifyResult(last.local.found,
                                      [last.local.stored_data EXCEPT !.clientR = other],
                                      last.req.s, last.req.clientR, last.req.username))

\* a Verify has succeeded with a commitment other than the stored one
StoredCommitmentIgnoredWitness ==
    /\ Succeeded
    /\ last.local.stored_data.clientR = <<"c">>
    /\ last.req.clientR = <<"2">>

====
